---- MODULE Spec2Model ----
(***************************************************************************)
(* Model of the people tracking and counting engine (tracker.py,           *)
(* class PeopleTracker) and of the caller's mode switch (app.py).          *)
(*                                                                         *)
(* A detection is a tuple <<x1, y1, x2, y2, label>>, a frame is            *)
(* represented by its shape <<h, w>>.  tracked_objects is a function from  *)
(* track ids to track records; a Python dict iterates in insertion order,  *)
(* and ids are inserted in increasing order, so iteration is by ascending  *)
(* id.                                                                     *)
(***************************************************************************)
EXTENDS Integers, Sequences, FiniteSets, TLC

VARIABLES mode, lane_split_x, entry_y_threshold, exit_y_threshold,
          tracked_objects, next_id, in_count, out_count, frame_id,
          lastOp, lastDets, ret, assoc, pre, issued, firstBorn, issuedEver,
          everIn, everOut, steady, firstShape, lastShape,
          last_sent, alert_active, restricted_alert_active,
          now, alert_obs, capacity_hist, restricted_hist, last_attempt

vars == <<mode, lane_split_x, entry_y_threshold, exit_y_threshold,
          tracked_objects, next_id, in_count, out_count, frame_id,
          lastOp, lastDets, ret, assoc, pre, issued, firstBorn, issuedEver,
          everIn, everOut, steady, firstShape, lastShape,
          last_sent, alert_active, restricted_alert_active,
          now, alert_obs, capacity_hist, restricted_hist, last_attempt>>

shapeVars == <<firstShape, lastShape>>

trackerVars == <<mode, lane_split_x, entry_y_threshold, exit_y_threshold,
                 tracked_objects, next_id, in_count, out_count, frame_id,
                 lastOp, lastDets, ret, assoc, pre, issued, firstBorn,
                 issuedEver, everIn, everOut, steady, firstShape, lastShape>>

alertVars == <<last_sent, alert_active, restricted_alert_active,
               now, alert_obs, capacity_hist, restricted_hist, last_attempt>>

config == <<lane_split_x, entry_y_threshold, exit_y_threshold>>

----------------------------------------------------------------------------
(* Bounds of the model *)

MaxFrame == 3
MaxLongFrame == 34
MaxIds == 3
MaxDets == 2
MaxTime == 12

----------------------------------------------------------------------------
(* Program constants *)

None == -1
inf == -2
max_dist_sq == 5000
stale_frame_threshold == 30
capacity == 10
cooldown == 10
StartTime == 1000

EagleEye == "Eagle-Eye"
LaneCounter == "Lane Counter"
Modes == {EagleEye, LaneCounter}

----------------------------------------------------------------------------
(* Inputs *)

FrameShapes == {<<480, 640>>, <<240, 320>>}

BoxA == <<50, 50, 150, 150>>
BoxB == <<60, 50, 161, 151>>
BoxC == <<100, 100, 201, 201>>
BoxD == <<250, 10, 350, 440>>
BoxE == <<290, 10, 390, 440>>
BoxF == <<100, 50, 200, 150>>

Boxes == {BoxA, BoxB, BoxC, BoxD, BoxE}

Det(b, label) == <<b[1], b[2], b[3], b[4], label>>

Detections == {Det(b, "person") : b \in Boxes} \cup {Det(BoxA, "backpack")}

CrowdDetections == {Det(BoxA, "person"), Det(BoxB, "person")}

SeqsUpTo(S, n) == UNION {[1..k -> S] : k \in 0..n}

(* A frame holds no detection, one detection, or a group of MaxDets people  *)
(* standing close to each other.                                           *)
DetectionLists == SeqsUpTo(Detections, 1) \cup [1..MaxDets -> CrowdDetections]

LongDetectionLists == SeqsUpTo({Det(BoxA, "person"), Det(BoxD, "person")}, 1)

----------------------------------------------------------------------------
(* Geometry utilities *)

get_centroid(bbox) == <<(bbox[1] + bbox[3]) \div 2, (bbox[2] + bbox[4]) \div 2>>

distance_sq(p1, p2) ==
    (p1[1] - p2[1]) * (p1[1] - p2[1]) + (p1[2] - p2[2]) * (p1[2] - p2[2])

Min(S) == CHOOSE x \in S : \A y \in S : x <= y

Extend(f, k, v) == [x \in DOMAIN f \cup {k} |-> IF x = k THEN v ELSE f[x]]

Restrict(f, S) == [x \in S |-> f[x]]

----------------------------------------------------------------------------
(* update: person filter *)

IsPerson(d) == d[5] = "person"

current_persons_detections(detections) == SelectSeq(detections, IsPerson)

----------------------------------------------------------------------------
(* update: association of one detection *)

(* The loop over tracked_objects.items() visits every track; the set      *)
(* updated_tracked_ids is filled by update but never consulted.            *)
Candidates(tracks, updated) == DOMAIN tracks

CloserOrEqual(dist, min_dist) ==
    (min_dist = inf \/ dist <= min_dist) /\ dist < max_dist_sq

CloserOrAtGate(dist, min_dist) ==
    (min_dist = inf \/ dist < min_dist) /\ dist <= max_dist_sq

Closer(dist, min_dist) == (min_dist = inf \/ dist < min_dist) /\ dist < max_dist_sq

RECURSIVE MatchLoop(_, _, _, _, _)
MatchLoop(tracks, ids, det_centroid, min_dist, matched_id) ==
    IF ids = {} THEN matched_id
    ELSE LET obj_id == Min(ids)
             dist == distance_sq(det_centroid, tracks[obj_id].centroid)
         IN  IF tracks[obj_id].status = "active" /\ Closer(dist, min_dist)
             THEN MatchLoop(tracks, ids \ {obj_id}, det_centroid, dist, obj_id)
             ELSE MatchLoop(tracks, ids \ {obj_id}, det_centroid, min_dist, matched_id)

NewTrack(det_bbox, det_centroid, fid) ==
    [bbox |-> det_bbox, centroid |-> det_centroid, lane |-> "unknown",
     status |-> "active", counted_in |-> FALSE, counted_out |-> FALSE,
     last_frame_id |-> fid]

UpdateTrackKeepCentroid(t, det_bbox, det_centroid, fid) ==
    [t EXCEPT !.bbox = det_bbox, !.last_frame_id = fid]

UpdateTrack(t, det_bbox, det_centroid, fid) ==
    [t EXCEPT !.bbox = det_bbox, !.centroid = det_centroid, !.last_frame_id = fid]

NewIdIsTrackCount(tracks, nid) == Cardinality(DOMAIN tracks)

NewId(tracks, nid) == nid

NextIdNotAdvanced(nid) == nid

NextIdAfterCreate(nid) == nid + 1

(* One iteration of the loop over current_persons_detections.  st is the   *)
(* record [tracks, next_id, updated, log]; log records, per detection, the *)
(* id it was given and the tracks before and after it was processed.       *)
AssociateOne(st, det, fid) ==
    LET det_bbox == <<det[1], det[2], det[3], det[4]>>
        det_centroid == get_centroid(det_bbox)
        matched_id == MatchLoop(st.tracks, Candidates(st.tracks, st.updated),
                                det_centroid, inf, None)
        tracks2 == IF matched_id # None
                   THEN [st.tracks EXCEPT ![matched_id] =
                            UpdateTrack(@, det_bbox, det_centroid, fid)]
                   ELSE Extend(st.tracks, NewId(st.tracks, st.next_id),
                               NewTrack(det_bbox, det_centroid, fid))
        id == IF matched_id # None THEN matched_id
              ELSE NewId(st.tracks, st.next_id)
        next2 == IF matched_id # None THEN st.next_id ELSE NextIdAfterCreate(st.next_id)
    IN  [tracks |-> tracks2,
         next_id |-> next2,
         updated |-> st.updated \cup {id},
         log |-> Append(st.log, [det |-> det, id |-> id,
                                 created |-> (matched_id = None),
                                 before |-> st.tracks, after |-> tracks2,
                                 next_before |-> st.next_id, next_after |-> next2])]

RECURSIVE AssociateAll(_, _, _, _)
AssociateAll(st, persons, i, fid) ==
    IF i > Len(persons) THEN st
    ELSE AssociateAll(AssociateOne(st, persons[i], fid), persons, i + 1, fid)

----------------------------------------------------------------------------
(* update: removal of stale tracks *)

IsStaleWhenUnmatched(t, fid) == fid - t.last_frame_id > 0

IsStaleLate(t, fid) == fid - t.last_frame_id > stale_frame_threshold + 1

IsStaleEarly(t, fid) == fid - t.last_frame_id >= stale_frame_threshold

IsStale(t, fid) == fid - t.last_frame_id > stale_frame_threshold

RemoveStale(tracks, fid) ==
    Restrict(tracks, {obj_id \in DOMAIN tracks : ~IsStale(tracks[obj_id], fid)})

----------------------------------------------------------------------------
(* update: counting in Lane Counter mode *)

LaneOf(cx, split) == IF cx < split THEN "enter" ELSE "exit"

AssignedLaneOnce(t, split) ==
    IF t.lane = "unknown" THEN LaneOf(t.centroid[1], split) ELSE t.lane

AssignedLane(t, split) == LaneOf(t.centroid[1], split)

EntryFiresAnyLane(t, lane, entry_y) == t.bbox[4] > entry_y /\ ~t.counted_in

EntryFiresUnguarded(t, lane, entry_y) == lane = "enter" /\ t.bbox[4] > entry_y

EntryFires(t, lane, entry_y) == lane = "enter" /\ t.bbox[4] > entry_y /\ ~t.counted_in

ExitFiresUnguarded(t, lane, exit_y) == lane = "exit" /\ t.bbox[2] < exit_y

ExitFires(t, lane, exit_y) == lane = "exit" /\ t.bbox[2] < exit_y /\ ~t.counted_out

(* One iteration of the loop over tracked_objects.  st is the record      *)
(* [tracks, in_count, out_count].                                           *)
CountOne(st, obj_id, split, entry_y, exit_y) ==
    LET t == st.tracks[obj_id]
        lane == AssignedLane(t, split)
        e == EntryFires(t, lane, entry_y)
        x == ExitFires(t, lane, exit_y)
    IN  [tracks |-> [st.tracks EXCEPT ![obj_id] =
                        [t EXCEPT !.lane = lane,
                                  !.counted_in = IF e THEN TRUE ELSE @,
                                  !.counted_out = IF x THEN TRUE ELSE @]],
         in_count |-> IF e THEN st.in_count + 1 ELSE st.in_count,
         out_count |-> IF x THEN st.out_count + 1 ELSE st.out_count]

RECURSIVE CountAll(_, _, _, _, _)
CountAll(st, ids, split, entry_y, exit_y) ==
    IF ids = {} THEN st
    ELSE LET obj_id == Min(ids)
         IN  CountAll(CountOne(st, obj_id, split, entry_y, exit_y),
                      ids \ {obj_id}, split, entry_y, exit_y)

EagleTotalUnfiltered(detections, persons, tracks) == Len(detections)

EagleTotal(detections, persons, tracks) == Len(persons)

LaneTotalClamped(ic, oc) == IF ic - oc < 0 THEN 0 ELSE ic - oc

LaneTotal(ic, oc) == ic - oc

----------------------------------------------------------------------------
(* Initial state: PeopleTracker.__init__                                   *)
(*                                                                         *)
(* Besides the fields of the engine the state records what an observer of  *)
(* the calls has seen: lastOp (the last call), lastDets and ret (argument   *)
(* and result of the last update), assoc (per person detection of the last *)
(* update: the id it was given, the tracks before and after it), pre (the  *)
(* counters before the last update), issued (ids issued since the last     *)
(* reset), firstBorn (those of them issued by the update of frame 1),      *)
(* issuedEver (ids issued since construction), everIn / everOut (ids of    *)
(* the tracks seen with counted_in / counted_out set since the last        *)
(* reset), steady (every frame since the last reset held exactly one       *)
(* person, less than the gate away from the one of the frame before) and,  *)
(* where the specification records them, firstShape and lastShape (the     *)
(* shape of the first frame processed since construction and of the last   *)
(* one).                                                                   *)
(*                                                                         *)
(* The AlertManager (alert.py) is built with capacity and cooldown and     *)
(* starts with last_sent = 0 and both flags False.  now is the clock       *)
(* time.time() reads, StartTime the reading at construction.  alert_obs    *)
(* records the last call of a handler: its condition, whether send_email   *)
(* was called, whether a delivery was attempted and succeeded, whether an  *)
(* exception left the handler, the value returned, and the history of the  *)
(* condition before the call.  capacity_hist and                           *)
(* restricted_hist follow each condition over the frames: "never" (not yet *)
(* true), "raised" (true, no delivery succeeded yet), "held" (a delivery   *)
(* succeeded and the condition was true on every frame since), "cleared"   *)
(* (false on the last frame, true on an earlier one).  last_attempt is the *)
(* time of the last delivery attempted (None before the first), and        *)
(* alert_obs.prev_attempt its value before the call.                       *)
NoAlertObs ==
    [op |-> "none", cond |-> FALSE, called |-> FALSE, attempted |-> FALSE,
     delivered |-> FALSE, raised |-> FALSE, ret |-> FALSE, before |-> "never",
     prev_attempt |-> None]

InitWith(m) ==
    /\ mode = m
    /\ lane_split_x = None
    /\ entry_y_threshold = None
    /\ exit_y_threshold = None
    /\ tracked_objects = <<>>
    /\ next_id = 0
    /\ in_count = 0
    /\ out_count = 0
    /\ frame_id = 0
    /\ lastOp = "init"
    /\ lastDets = <<>>
    /\ ret = [in_count |-> 0, out_count |-> 0, total |-> 0]
    /\ assoc = <<>>
    /\ pre = [in_count |-> 0, out_count |-> 0]
    /\ issued = {}
    /\ firstBorn = {}
    /\ issuedEver = {}
    /\ everIn = {}
    /\ everOut = {}
    /\ steady = TRUE
    /\ firstShape = <<>>
    /\ lastShape = <<>>
    /\ last_sent = 0
    /\ alert_active = FALSE
    /\ restricted_alert_active = FALSE
    /\ now = StartTime
    /\ alert_obs = NoAlertObs
    /\ capacity_hist = "never"
    /\ restricted_hist = "never"
    /\ last_attempt = None

Init == \E m \in Modes : InitWith(m)

----------------------------------------------------------------------------
(* PeopleTracker.update *)

SteadyStep(detections) ==
    LET persons == current_persons_detections(detections)
        prev == current_persons_detections(lastDets)
    IN  /\ Len(persons) = 1
        /\ frame_id > 0 =>
              /\ Len(prev) = 1
              /\ distance_sq(get_centroid(persons[1]), get_centroid(prev[1])) < max_dist_sq

(* The boundary configuration, set where it is still None.  int(h * 0.9)   *)
(* and int(h * 0.1) truncate; for the heights of FrameShapes they equal    *)
(* (h * 9) \div 10 and h \div 10.                                          *)
LaneSplitRecomputed(cur, w) == w \div 2

LaneSplit(cur, w) == IF cur = None THEN w \div 2 ELSE cur

EntryLine(cur, h) == IF cur = None THEN (h * 9) \div 10 ELSE cur

ExitLine(cur, h) == IF cur = None THEN h \div 10 ELSE cur

ConfiguresAlways(m) == TRUE

Configures(m) == m = LaneCounter

update(detections, shape) ==
    LET fid == frame_id + 1
        h == shape[1]
        w == shape[2]
        lane_on == Configures(mode)
        split == IF lane_on THEN LaneSplit(lane_split_x, w) ELSE lane_split_x
        entry_y == IF lane_on THEN EntryLine(entry_y_threshold, h)
                   ELSE entry_y_threshold
        exit_y == IF lane_on THEN ExitLine(exit_y_threshold, h)
                  ELSE exit_y_threshold
        persons == current_persons_detections(detections)
    IN  \E a \in {AssociateAll([tracks |-> tracked_objects, next_id |-> next_id,
                                updated |-> {}, log |-> <<>>], persons, 1, fid)} :
        \E kept \in {RemoveStale(a.tracks, fid)} :
        \E c \in {IF mode = LaneCounter
                  THEN CountAll([tracks |-> kept, in_count |-> in_count,
                                 out_count |-> out_count],
                                DOMAIN kept, split, entry_y, exit_y)
                  ELSE [tracks |-> kept, in_count |-> in_count,
                        out_count |-> out_count]} :
        LET net_people_total == IF mode = EagleEye
                                THEN EagleTotal(detections, persons, kept)
                                ELSE IF mode = LaneCounter
                                     THEN LaneTotal(c.in_count, c.out_count)
                                     ELSE 0
            created == {a.log[i].id : i \in {j \in DOMAIN a.log : a.log[j].created}}
        IN  /\ a.next_id <= MaxIds
            /\ frame_id' = fid
            /\ lane_split_x' = split
            /\ entry_y_threshold' = entry_y
            /\ exit_y_threshold' = exit_y
            /\ tracked_objects' = c.tracks
            /\ next_id' = a.next_id
            /\ in_count' = c.in_count
            /\ out_count' = c.out_count
            /\ ret' = [in_count |-> c.in_count, out_count |-> c.out_count,
                       total |-> net_people_total]
            /\ lastOp' = "update"
            /\ lastDets' = detections
            /\ assoc' = a.log
            /\ pre' = [in_count |-> in_count, out_count |-> out_count]
            /\ issued' = issued \cup created
            /\ firstBorn' = (IF fid = 1 THEN created ELSE firstBorn)
            /\ issuedEver' = issuedEver \cup created
            /\ everIn' = everIn \cup {id \in DOMAIN c.tracks : c.tracks[id].counted_in}
            /\ everOut' = everOut \cup {id \in DOMAIN c.tracks : c.tracks[id].counted_out}
            /\ steady' = (steady /\ SteadyStep(detections))
            /\ UNCHANGED <<mode, alertVars>>

Update ==
    /\ frame_id < MaxFrame
    /\ \E detections \in DetectionLists, shape \in FrameShapes :
          update(detections, shape)
    /\ UNCHANGED shapeVars

----------------------------------------------------------------------------
(* PeopleTracker.reset_counts *)

reset_counts_keeps_allocator ==
    /\ in_count' = 0
    /\ out_count' = 0
    /\ tracked_objects' = <<>>
    /\ frame_id' = 0
    /\ lastOp' = "reset"
    /\ lastDets' = <<>>
    /\ assoc' = <<>>
    /\ pre' = [in_count |-> 0, out_count |-> 0]
    /\ issued' = {}
    /\ firstBorn' = {}
    /\ everIn' = {}
    /\ everOut' = {}
    /\ steady' = TRUE
    /\ ret' = [in_count |-> 0, out_count |-> 0, total |-> 0]
    /\ UNCHANGED <<mode, config, issuedEver, next_id, shapeVars, alertVars>>

reset_counts ==
    /\ in_count' = 0
    /\ out_count' = 0
    /\ tracked_objects' = <<>>
    /\ next_id' = 0
    /\ frame_id' = 0
    /\ lastOp' = "reset"
    /\ lastDets' = <<>>
    /\ assoc' = <<>>
    /\ pre' = [in_count |-> 0, out_count |-> 0]
    /\ issued' = {}
    /\ firstBorn' = {}
    /\ everIn' = {}
    /\ everOut' = {}
    /\ steady' = TRUE
    /\ ret' = [in_count |-> 0, out_count |-> 0, total |-> 0]
    /\ UNCHANGED <<mode, config, issuedEver, shapeVars, alertVars>>

----------------------------------------------------------------------------
(* The caller's assignment tracker.mode = mode *)

set_mode(m) ==
    /\ mode # m
    /\ mode' = m
    /\ lastOp' = "set_mode"
    /\ UNCHANGED <<config, tracked_objects, next_id, in_count, out_count,
                   frame_id, lastDets, ret, assoc, pre, issued, firstBorn,
                   issuedEver, everIn, everOut, steady, shapeVars, alertVars>>

SetMode == \E m \in Modes : set_mode(m)

----------------------------------------------------------------------------
(* AlertManager *)

(* What the SMTP session of send_email ends with: the message sent, or an  *)
(* exception of smtplib or of the socket.                                  *)
SmtpOutcomes == {"sent", "SMTPException", "OSError"}

CaughtOnlySmtpErrors(e) == e = "SMTPException"

CaughtByExcept(e) == e \in {"SMTPException", "OSError"}

CooldownActiveAtLimit(current_time, last) == current_time - last <= cooldown

CooldownActive(current_time, last) == current_time - last < cooldown

(* send_email: the result returned, last_sent afterwards, whether the      *)
(* delivery was attempted and whether an exception leaves the method.  The *)
(* bodies the handlers build are never empty.                              *)
send_email_stamps_on_success(current_time, last, smtp) ==
    IF CooldownActive(current_time, last)
    THEN [ret |-> FALSE, last_sent |-> last, attempted |-> FALSE, raised |-> FALSE]
    ELSE [ret |-> (smtp = "sent"),
          last_sent |-> IF smtp = "sent" THEN current_time ELSE last,
          attempted |-> TRUE,
          raised |-> (smtp # "sent" /\ ~CaughtByExcept(smtp))]

send_email(current_time, last, smtp) ==
    IF CooldownActive(current_time, last)
    THEN [ret |-> FALSE, last_sent |-> last, attempted |-> FALSE, raised |-> FALSE]
    ELSE [ret |-> (smtp = "sent"), last_sent |-> current_time, attempted |-> TRUE,
          raised |-> (smtp # "sent" /\ ~CaughtByExcept(smtp))]

NotifiesAlways(active) == TRUE

Notifies(active) == ~active

(* The flag after `if self.send_email(...): flag = True`. *)
ActiveAfterSend(active, sent) == IF sent THEN TRUE ELSE active

(* The branch taken while the condition is true; s is the outcome of       *)
(* send_email, or NoSend when it is not called.                            *)
NoSend == [ret |-> FALSE, last_sent |-> last_sent, attempted |-> FALSE,
           raised |-> FALSE]

check_capacity(current_count, smtp) ==
    IF current_count > capacity
    THEN LET called == Notifies(alert_active)
             s == IF called THEN send_email(now, last_sent, smtp) ELSE NoSend
         IN  [active |-> IF s.raised THEN alert_active
                         ELSE IF called THEN ActiveAfterSend(alert_active, s.ret)
                         ELSE alert_active,
              last_sent |-> s.last_sent, called |-> called,
              attempted |-> s.attempted, delivered |-> s.ret,
              raised |-> s.raised, ret |-> ~s.raised]
    ELSE [active |-> FALSE, last_sent |-> last_sent, called |-> FALSE,
          attempted |-> FALSE, delivered |-> FALSE, raised |-> FALSE,
          ret |-> FALSE]

NextHist(hist, cond, delivered) ==
    IF cond THEN (IF delivered \/ hist = "held" THEN "held" ELSE "raised")
    ELSE IF hist = "never" THEN "never" ELSE "cleared"

(* handle_capacity returns what check_capacity returns; the annotation of  *)
(* the frame is not modelled.                                              *)
handle_capacity(current_count, smtp) ==
    \E r \in {check_capacity(current_count, smtp)} :
        /\ alert_active' = r.active
        /\ last_sent' = r.last_sent
        /\ alert_obs' = [op |-> "capacity", cond |-> (current_count > capacity),
                         called |-> r.called, attempted |-> r.attempted,
                         delivered |-> r.delivered, raised |-> r.raised,
                         ret |-> r.ret, before |-> capacity_hist,
                         prev_attempt |-> last_attempt]
        /\ last_attempt' = IF r.attempted THEN now ELSE last_attempt
        /\ capacity_hist' = NextHist(capacity_hist, current_count > capacity,
                                     r.delivered)
        /\ UNCHANGED <<restricted_alert_active, now, restricted_hist, trackerVars>>

(* str.lower on the labels of AlertLabels. *)
Lower(label) == IF label = "Backpack" THEN "backpack" ELSE label

is_restricted_item_present_this_frame(detections, restricted_items_lower) ==
    \E i \in DOMAIN detections : Lower(detections[i][5]) \in restricted_items_lower

handle_restricted(detections, restricted_items_lower, smtp) ==
    LET present == is_restricted_item_present_this_frame(detections,
                                                         restricted_items_lower)
        called == present /\ Notifies(restricted_alert_active)
    IN  \E s \in {IF called THEN send_email(now, last_sent, smtp) ELSE NoSend} :
        /\ restricted_alert_active' =
              IF ~present THEN FALSE
              ELSE IF s.raised THEN restricted_alert_active
              ELSE IF called THEN ActiveAfterSend(restricted_alert_active, s.ret)
              ELSE restricted_alert_active
        /\ last_sent' = s.last_sent
        /\ alert_obs' = [op |-> "restricted", cond |-> present, called |-> called,
                         attempted |-> s.attempted, delivered |-> s.ret,
                         raised |-> s.raised, ret |-> (present /\ ~s.raised),
                         before |-> restricted_hist,
                         prev_attempt |-> last_attempt]
        /\ last_attempt' = IF s.attempted THEN now ELSE last_attempt
        /\ restricted_hist' = NextHist(restricted_hist, present, s.ret)
        /\ UNCHANGED <<alert_active, now, capacity_hist, trackerVars>>

(* The counts and detections the frame loop hands to the handlers. *)
Counts == {capacity - 1, capacity, capacity + 1}

AlertLabels == {"person", "backpack", "Backpack"}

AlertDetectionLists == SeqsUpTo({Det(BoxA, l) : l \in AlertLabels}, 1)

RestrictedItems == {"backpack"}

HandleCapacity ==
    \E current_count \in Counts, smtp \in SmtpOutcomes :
        handle_capacity(current_count, smtp)

HandleRestricted ==
    \E detections \in AlertDetectionLists, smtp \in SmtpOutcomes :
        handle_restricted(detections, RestrictedItems, smtp)

(* Time passing between two calls. *)
Tick ==
    /\ now < StartTime + MaxTime
    /\ now' = now + 1
    /\ alert_obs' = [alert_obs EXCEPT !.op = "tick"]
    /\ UNCHANGED <<last_sent, alert_active, restricted_alert_active,
                   capacity_hist, restricted_hist, last_attempt, trackerVars>>

----------------------------------------------------------------------------

Next == Update \/ reset_counts \/ SetMode

Spec == Init /\ [][Next]_vars

(* Long runs of sparse frames, to let tracks go stale *)

UpdateLong ==
    /\ frame_id < MaxLongFrame
    /\ \E detections \in LongDetectionLists : update(detections, <<480, 640>>)
    /\ UNCHANGED shapeVars

NextLong == UpdateLong

SpecLong == Init /\ [][NextLong]_vars

(* The engine fed frames of either shape with at most one person, with     *)
(* resets and mode changes between the frames; the shapes of the first     *)
(* and of the last frame processed are recorded.                           *)
ShapeDetectionLists == SeqsUpTo({Det(BoxD, "person")}, 1)

UpdateShape ==
    /\ frame_id < MaxFrame
    /\ \E detections \in ShapeDetectionLists, shape \in FrameShapes :
          /\ update(detections, shape)
          /\ firstShape' = IF firstShape = <<>> THEN shape ELSE firstShape
          /\ lastShape' = shape

NextShape == UpdateShape \/ reset_counts \/ SetMode

SpecShape == Init /\ [][NextShape]_vars

(* The engine fed people at BoxA and BoxC, which are exactly the gate      *)
(* apart, and at BoxF, whose centroid is equally far from both; a frame    *)
(* holds at most one of them or MaxDets of the last two.                   *)
TieDetections == {Det(BoxA, "person"), Det(BoxC, "person"), Det(BoxF, "person")}

TieDetectionLists ==
    SeqsUpTo(TieDetections, 1)
        \cup [1..MaxDets -> {Det(BoxC, "person"), Det(BoxF, "person")}]

UpdateTie ==
    /\ frame_id < MaxFrame
    /\ \E detections \in TieDetectionLists : update(detections, <<480, 640>>)
    /\ UNCHANGED shapeVars

NextTie == UpdateTie \/ reset_counts

SpecTie == Init /\ [][NextTie]_vars

(* The AlertManager called frame after frame while time passes. *)
NextAlert == HandleCapacity \/ HandleRestricted \/ Tick

SpecAlert == Init /\ [][NextAlert]_vars

----------------------------------------------------------------------------
(* Properties *)

IsUpdateStep == lastOp' = "update" /\ frame_id' = frame_id + 1

AssignedIds(log) == {log[i].id : i \in DOMAIN log}

(* C1: within one update call no track is matched or updated by more than  *)
(* one person detection of the frame: the ids given to the person          *)
(* detections of one frame are pairwise distinct.                          *)
C1_OneToOneMatching ==
    \A i, j \in DOMAIN assoc : i # j => assoc[i].id # assoc[j].id

(* C2: each track contributes at most 1 to in_count and at most 1 to       *)
(* out_count: the counters equal the number of tracks that have had        *)
(* counted_in (counted_out) set since the last reset, and a flag once set  *)
(* on an active track stays set.                                           *)
C2_CountedAtMostOnce ==
    /\ in_count = Cardinality(everIn)
    /\ out_count = Cardinality(everOut)
    /\ \A id \in DOMAIN tracked_objects :
          /\ id \in everIn => tracked_objects[id].counted_in
          /\ id \in everOut => tracked_objects[id].counted_out

C2_Witness ==
    /\ lastOp = "update"
    /\ mode = LaneCounter
    /\ in_count = pre.in_count
    /\ \E id \in DOMAIN tracked_objects :
          /\ tracked_objects[id].counted_in
          /\ tracked_objects[id].lane = "enter"
          /\ tracked_objects[id].bbox[4] > entry_y_threshold

(* C3: after every update every active track has                           *)
(* frame_id - last_frame_id <= 30; a track is removed by an update only if *)
(* no detection of the frame matched it and frame_id - last_frame_id > 30. *)
C3_StaleTracksRemoved ==
    [][IsUpdateStep =>
        /\ \A id \in DOMAIN tracked_objects' :
              frame_id' - tracked_objects'[id].last_frame_id <= 30
        /\ \A id \in DOMAIN tracked_objects :
              id \notin DOMAIN tracked_objects' =>
                 /\ id \notin AssignedIds(assoc')
                 /\ frame_id' - tracked_objects[id].last_frame_id > 30
        /\ AssignedIds(assoc') \subseteq DOMAIN tracked_objects']_vars

C3_Witness ==
    /\ lastOp = "update"
    /\ issued \ DOMAIN tracked_objects # {}
    /\ \E id \in DOMAIN tracked_objects :
          frame_id - tracked_objects[id].last_frame_id = 30

(* C4 as stated: a track created on frame 1 and last matched on frame 2 is *)
(* no longer in the active set after the update of frame 32.               *)
C4_EvictedOnFrame32 ==
    (lastOp = "update" /\ frame_id = 32) =>
        \A id \in DOMAIN tracked_objects :
            ~(id \in firstBorn /\ tracked_objects[id].last_frame_id = 2)

(* C4 as amended: a track created on frame 1 and last matched on frame 2   *)
(* stays in the active set through the updates of frames 3..32 that do not *)
(* match it and is removed by the update of frame 33.                      *)
C4_EvictedOnFrame33 ==
    [][\A id \in DOMAIN tracked_objects :
          (/\ id \in firstBorn
           /\ tracked_objects[id].last_frame_id = 2
           /\ IsUpdateStep
           /\ id \notin AssignedIds(assoc'))
          => (id \in DOMAIN tracked_objects' <=> frame_id' <= 32)]_vars

C4_Witness ==
    /\ lastOp = "update"
    /\ frame_id = 32
    /\ \E id \in DOMAIN tracked_objects :
          id \in firstBorn /\ tracked_objects[id].last_frame_id = 2

(* C5: while every frame since construction or reset holds exactly one     *)
(* person detection whose centroid is less than max_dist_sq away from the  *)
(* one of the frame before, the detection is given id 0 in every frame and *)
(* no second track is created.                                             *)
C5_SingleSlowPersonKeepsId ==
    (steady /\ lastOp = "update") =>
        /\ Len(assoc) = 1
        /\ assoc[1].id = 0
        /\ next_id = 1
        /\ DOMAIN tracked_objects = {0}

C5_Witness ==
    /\ steady
    /\ lastOp = "update"
    /\ frame_id >= 3
    /\ assoc[1].before[0].centroid # get_centroid(assoc[1].det)
    /\ tracked_objects[0].centroid = <<150, 150>>

(* C6: a person detection that is not strictly less than 5000 (squared)    *)
(* away from any track active when it is processed creates a track with    *)
(* id = next_id, advances next_id by 1, the new track has both flags False *)
(* and last_frame_id = frame_id, and no existing track is changed.         *)
FarFromAll(e) ==
    \A id \in DOMAIN e.before :
        distance_sq(get_centroid(e.det), e.before[id].centroid) >= 5000

C6_FarDetectionCreatesTrack ==
    \A i \in DOMAIN assoc :
        LET e == assoc[i]
        IN  FarFromAll(e) =>
               /\ e.created
               /\ e.id = e.next_before
               /\ e.next_after = e.next_before + 1
               /\ e.id \notin DOMAIN e.before
               /\ DOMAIN e.after = DOMAIN e.before \cup {e.id}
               /\ ~e.after[e.id].counted_in
               /\ ~e.after[e.id].counted_out
               /\ e.after[e.id].last_frame_id = frame_id
               /\ \A id \in DOMAIN e.before : e.after[id] = e.before[id]

C6_Witness ==
    \E i \in DOMAIN assoc :
        /\ assoc[i].created
        /\ \E id \in DOMAIN assoc[i].before :
              distance_sq(get_centroid(assoc[i].det),
                          assoc[i].before[id].centroid) = 5000

(* C7: reset_counts yields in_count = 0, out_count = 0, no active track,   *)
(* next_id = 0 and frame_id = 0 and leaves lane_split_x,                   *)
(* entry_y_threshold, exit_y_threshold and mode as they were.              *)
C7_ResetClearsCountsKeepsConfig ==
    [][lastOp' = "reset" =>
        /\ in_count' = 0
        /\ out_count' = 0
        /\ tracked_objects' = <<>>
        /\ next_id' = 0
        /\ frame_id' = 0
        /\ lane_split_x' = lane_split_x
        /\ entry_y_threshold' = entry_y_threshold
        /\ exit_y_threshold' = exit_y_threshold
        /\ mode' = mode]_vars

C7_Witness ==
    /\ lastOp = "reset"
    /\ lane_split_x # None
    /\ issuedEver # {}

(* C8: in Eagle-Eye mode the total returned by update is the number of     *)
(* detections of the frame labelled 'person', whatever the history.        *)
C8_EagleTotalIsPersonCount ==
    (lastOp = "update" /\ mode = EagleEye) =>
        ret.total = Cardinality({i \in DOMAIN lastDets : lastDets[i][5] = "person"})

C8_Witness ==
    /\ lastOp = "update"
    /\ mode = EagleEye
    /\ in_count > 0
    /\ ret.total = 1
    /\ ret.total # in_count - out_count
    /\ ret.total # Cardinality(DOMAIN tracked_objects)

(* C9: in_count and out_count are lowered by reset_counts only; in every   *)
(* other step each counter grows by the number of tracks whose counted_in  *)
(* (counted_out) flag turns True in that step.                             *)
TurnedIn ==
    {id \in DOMAIN tracked_objects' :
        /\ tracked_objects'[id].counted_in
        /\ id \in DOMAIN tracked_objects => ~tracked_objects[id].counted_in}

TurnedOut ==
    {id \in DOMAIN tracked_objects' :
        /\ tracked_objects'[id].counted_out
        /\ id \in DOMAIN tracked_objects => ~tracked_objects[id].counted_out}

C9_CountersMonotone ==
    [][/\ (in_count' < in_count \/ out_count' < out_count) => lastOp' = "reset"
       /\ lastOp' # "reset" =>
             /\ in_count' - in_count = Cardinality(TurnedIn)
             /\ out_count' - out_count = Cardinality(TurnedOut)]_vars

C9_Witness ==
    /\ lastOp = "update"
    /\ out_count > pre.out_count
    /\ in_count >= 1

(* C10 as stated: over the whole lifetime of the engine every id given to  *)
(* a new track is greater than every id given before.                      *)
C10_IdsNeverReused ==
    [][IsUpdateStep =>
        \A i \in DOMAIN assoc' :
            assoc'[i].created => \A old \in issuedEver : assoc'[i].id > old]_vars

(* C10 as amended: between two resets every id given to a new track is     *)
(* greater than every id given since the last reset (and than those given  *)
(* earlier in the same frame); reset_counts restarts the ids at 0.         *)
C10_IdsIncreaseBetweenResets ==
    [][/\ IsUpdateStep =>
            \A i \in DOMAIN assoc' :
                assoc'[i].created =>
                   /\ \A old \in issued : assoc'[i].id > old
                   /\ \A j \in DOMAIN assoc' :
                         (j < i /\ assoc'[j].created) => assoc'[j].id < assoc'[i].id
       /\ lastOp' = "reset" => next_id' = 0]_vars

C10_Witness ==
    /\ lastOp = "update"
    /\ Cardinality(issued) >= 2
    /\ issuedEver # issued
    /\ \E i \in DOMAIN assoc : assoc[i].created

(* The boundary configuration the code derives from a frame of shape       *)
(* <<h, w>>.                                                               *)
ConfigOf(shape) == <<shape[2] \div 2, (shape[1] * 9) \div 10, shape[1] \div 10>>

(* C11: once lane_split_x, entry_y_threshold and exit_y_threshold are      *)
(* non-None, no operation changes them: not an update with a frame of      *)
(* another shape, not a mode change, not reset_counts.                     *)
C11_ConfigFixedOnceComputed ==
    [][/\ lane_split_x # None => lane_split_x' = lane_split_x
       /\ entry_y_threshold # None => entry_y_threshold' = entry_y_threshold
       /\ exit_y_threshold # None => exit_y_threshold' = exit_y_threshold]_vars

(* A Lane Counter update of a 640 x 480 frame has run while the            *)
(* configuration is the one of a 320 x 240 frame.                          *)
C11_Witness ==
    /\ lastOp = "update"
    /\ mode = LaneCounter
    /\ lastShape = <<480, 640>>
    /\ config = ConfigOf(<<240, 320>>)

(* C17 as stated: whenever the boundary configuration is set, it is the    *)
(* one derived from the first frame the engine processed, in whichever     *)
(* mode that frame was processed.                                          *)
C17_ConfigFromFirstFrame ==
    lane_split_x # None => config = ConfigOf(firstShape)

(* C17 as amended: while the configuration is None, an update in Lane      *)
(* Counter mode sets it from the dimensions of the frame it processes,     *)
(* and every other step (an update in Eagle-Eye mode, a mode change, a     *)
(* reset) leaves it None.                                                  *)
C17_ConfigFromFirstLaneFrame ==
    [][lane_split_x = None =>
         IF IsUpdateStep /\ mode = LaneCounter
         THEN config' = ConfigOf(lastShape')
         ELSE config' = <<None, None, None>>]_vars

(* The first frame was processed in Eagle-Eye mode with one shape, and the *)
(* configuration was set later from a Lane Counter frame of the other.     *)
C17_Witness ==
    /\ lastOp = "update"
    /\ mode = LaneCounter
    /\ firstShape = <<480, 640>>
    /\ lastShape = <<240, 320>>
    /\ config = ConfigOf(<<240, 320>>)
    /\ frame_id >= 2

(* C13: in Lane Counter mode the total returned by update is in_count -    *)
(* out_count as they stand after the counting of the frame, negative when  *)
(* out_count exceeds in_count.                                             *)
C13_LaneTotalIsNetUnclamped ==
    (lastOp = "update" /\ mode = LaneCounter) =>
        /\ ret.total = in_count - out_count
        /\ ret.in_count = in_count
        /\ ret.out_count = out_count
        /\ out_count > in_count => ret.total < 0

(* An update counted an exit and returned a negative total.                *)
C13_Witness ==
    /\ lastOp = "update"
    /\ mode = LaneCounter
    /\ out_count > pre.out_count
    /\ ret.total < 0

(* C12: absent a reset, no detection is ever given the id of a track that  *)
(* was removed for staleness (an id issued earlier and no longer in the    *)
(* active set); a detection that matches no active track is given an id    *)
(* never issued before, with counted_in and counted_out False, so that the *)
(* counting of the same frame can count it again.                          *)
C12_RemovedIdentityNotReused ==
    [][IsUpdateStep =>
        \A i \in DOMAIN assoc' :
            /\ assoc'[i].id \notin (issued \ DOMAIN tracked_objects)
            /\ assoc'[i].created =>
                  /\ assoc'[i].id \notin issued
                  /\ ~assoc'[i].after[assoc'[i].id].counted_in
                  /\ ~assoc'[i].after[assoc'[i].id].counted_out]_vars

(* A person counted in under id 0 was removed for staleness; a detection   *)
(* at the same place got a new id and was counted in a second time.        *)
C12_Witness ==
    /\ lastOp = "update"
    /\ 0 \in everIn
    /\ 0 \notin DOMAIN tracked_objects
    /\ Len(assoc) = 1
    /\ assoc[1].created
    /\ assoc[1].id # 0
    /\ assoc[1].det = Det(BoxD, "person")
    /\ tracked_objects[assoc[1].id].counted_in
    /\ in_count = 2
    /\ pre.in_count = 1

(* The flags a track of the active set after eviction had before the       *)
(* update: those of its record, or False for a track created by it.        *)
WasCountedIn(id) == id \in DOMAIN tracked_objects /\ tracked_objects[id].counted_in

WasCountedOut(id) == id \in DOMAIN tracked_objects /\ tracked_objects[id].counted_out

(* The counting conditions of a track as the update leaves it, against the *)
(* configuration in force after the update.                                *)
CrossesEntry(id) ==
    /\ tracked_objects'[id].centroid[1] < lane_split_x'
    /\ tracked_objects'[id].bbox[4] > entry_y_threshold'
    /\ ~WasCountedIn(id)

CrossesExit(id) ==
    /\ tracked_objects'[id].centroid[1] >= lane_split_x'
    /\ tracked_objects'[id].bbox[2] < exit_y_threshold'
    /\ ~WasCountedOut(id)

(* C18: in a Lane Counter update, every track of the active set after      *)
(* eviction adds exactly 1 to in_count and gets counted_in iff its         *)
(* centroid x < lane_split_x, its y2 > entry_y_threshold and counted_in    *)
(* was False, and adds exactly 1 to out_count and gets counted_out iff its *)
(* centroid x >= lane_split_x, its y1 < exit_y_threshold and counted_out   *)
(* was False; no track changes both counters in one update.                *)
C18_CountingPerTrack ==
    [][(IsUpdateStep /\ mode = LaneCounter) =>
        /\ \A id \in DOMAIN tracked_objects' :
              /\ tracked_objects'[id].counted_in = (WasCountedIn(id) \/ CrossesEntry(id))
              /\ tracked_objects'[id].counted_out = (WasCountedOut(id) \/ CrossesExit(id))
              /\ ~(CrossesEntry(id) /\ CrossesExit(id))
        /\ in_count' = in_count
               + Cardinality({id \in DOMAIN tracked_objects' : CrossesEntry(id)})
        /\ out_count' = out_count
               + Cardinality({id \in DOMAIN tracked_objects' : CrossesExit(id)})]_vars

(* A track first seen beyond the entry line was counted in on the frame    *)
(* that created it.                                                        *)
C18_Witness ==
    /\ lastOp = "update"
    /\ mode = LaneCounter
    /\ \E i \in DOMAIN assoc :
          /\ assoc[i].created
          /\ assoc[i].id \in DOMAIN tracked_objects
          /\ tracked_objects[assoc[i].id].counted_in
          /\ ~tracked_objects[assoc[i].id].counted_out
    /\ in_count = pre.in_count + 1
    /\ out_count = pre.out_count

(* A track record without the fields the counting step writes.             *)
Tracked(t) == [bbox |-> t.bbox, centroid |-> t.centroid, status |-> t.status,
               last_frame_id |-> t.last_frame_id]

(* C20: a track that no detection of the frame is given and that is not    *)
(* yet stale stays in the active set under its id; the association leaves  *)
(* its whole record as it was, the eviction keeps it, and its bbox,        *)
(* centroid and last_frame_id are the same after the update (in Eagle-Eye  *)
(* mode, where nothing is counted, the whole record is).  last_frame_id    *)
(* changes only for a track a detection was given, and then to the         *)
(* current frame_id.                                                       *)
C20_UnmatchedTrackUntouched ==
    [][IsUpdateStep =>
        /\ \A id \in DOMAIN tracked_objects \ AssignedIds(assoc') :
              frame_id' - tracked_objects[id].last_frame_id <= stale_frame_threshold =>
                 /\ id \in DOMAIN tracked_objects'
                 /\ \A i \in DOMAIN assoc' :
                       assoc'[i].after[id] = tracked_objects[id]
                 /\ Tracked(tracked_objects'[id]) = Tracked(tracked_objects[id])
                 /\ mode = EagleEye => tracked_objects'[id] = tracked_objects[id]
                 /\ tracked_objects[id].counted_in => tracked_objects'[id].counted_in
                 /\ tracked_objects[id].counted_out => tracked_objects'[id].counted_out
        /\ \A id \in DOMAIN tracked_objects \cap DOMAIN tracked_objects' :
              IF id \in AssignedIds(assoc')
              THEN tracked_objects'[id].last_frame_id = frame_id'
              ELSE tracked_objects'[id].last_frame_id =
                      tracked_objects[id].last_frame_id]_vars

(* A track last seen stale_frame_threshold frames ago is still in the      *)
(* active set after an update whose only detection went to another track.  *)
C20_Witness ==
    /\ lastOp = "update"
    /\ Len(assoc) = 1
    /\ ~assoc[1].created
    /\ \E id \in DOMAIN tracked_objects \ AssignedIds(assoc) :
          frame_id - tracked_objects[id].last_frame_id = stale_frame_threshold

(* The tracks a detection can be matched to: the active ones less than the *)
(* gate away from its centroid.                                            *)
DetCentroid(det) == get_centroid(<<det[1], det[2], det[3], det[4]>>)

InGate(tracks, det) ==
    {id \in DOMAIN tracks :
        /\ tracks[id].status = "active"
        /\ distance_sq(DetCentroid(det), tracks[id].centroid) < max_dist_sq}

(* C19: the person detections are processed in detection order, each       *)
(* against the tracks as the detections before it left them; a detection   *)
(* with no active track within the gate creates a track, any other is      *)
(* given the track within the gate at the least squared centroid distance, *)
(* the lowest id among those at that distance.                             *)
C19_GreedyNearestLowestId ==
    [][IsUpdateStep =>
        /\ Len(assoc') = Len(current_persons_detections(lastDets'))
        /\ \A i \in DOMAIN assoc' :
              LET e == assoc'[i]
                  c == DetCentroid(e.det)
                  cands == InGate(e.before, e.det)
              IN  /\ e.det = current_persons_detections(lastDets')[i]
                  /\ e.before = IF i = 1 THEN tracked_objects ELSE assoc'[i - 1].after
                  /\ e.created = (cands = {})
                  /\ cands # {} =>
                        /\ e.id \in cands
                        /\ \A o \in cands :
                              /\ distance_sq(c, e.before[e.id].centroid)
                                    <= distance_sq(c, e.before[o].centroid)
                              /\ distance_sq(c, e.before[e.id].centroid)
                                    = distance_sq(c, e.before[o].centroid)
                                       => e.id <= o]_vars

(* A detection equally far from two tracks within the gate was given the   *)
(* one with the lower id.                                                  *)
C19_Witness ==
    /\ lastOp = "update"
    /\ \E i \in DOMAIN assoc :
          \E o \in InGate(assoc[i].before, assoc[i].det) :
             /\ assoc[i].id \in InGate(assoc[i].before, assoc[i].det)
             /\ assoc[i].id < o
             /\ distance_sq(DetCentroid(assoc[i].det), assoc[i].before[o].centroid)
                   = distance_sq(DetCentroid(assoc[i].det),
                                 assoc[i].before[assoc[i].id].centroid)

(* The last step was a call of the handler of the condition. *)
CapacityStep == alert_obs'.op = "capacity"

RestrictedStep == alert_obs'.op = "restricted"

(* C14: once a notification for a condition has been delivered and while   *)
(* the condition has been true on every frame since, a frame with the      *)
(* condition true calls send_email no more, attempts no delivery and       *)
(* leaves last_sent alone, and the flag of the condition is True.          *)
C14_NoResendWhileConditionHolds ==
    [][/\ (CapacityStep /\ capacity_hist = "held" /\ alert_obs'.cond) =>
            /\ ~alert_obs'.called
            /\ ~alert_obs'.attempted
            /\ last_sent' = last_sent
       /\ (RestrictedStep /\ restricted_hist = "held" /\ alert_obs'.cond) =>
            /\ ~alert_obs'.called
            /\ ~alert_obs'.attempted
            /\ last_sent' = last_sent
       /\ capacity_hist' = "held" => alert_active'
       /\ restricted_hist' = "held" => restricted_alert_active']_vars

(* The capacity notification was delivered, the cooldown has run out, and  *)
(* a further frame over capacity sent nothing.                             *)
C14_Witness ==
    /\ alert_obs.op = "capacity"
    /\ alert_obs.before = "held"
    /\ alert_obs.cond
    /\ ~alert_obs.called
    /\ alert_active
    /\ now - last_sent >= cooldown

(* C15 as stated: on the frame where a condition that had cleared is true  *)
(* again, a delivery of a new notification is attempted.                   *)
C15_NotifiesAgainAfterClear ==
    [][/\ (CapacityStep /\ capacity_hist = "cleared" /\ alert_obs'.cond) =>
            alert_obs'.attempted
       /\ (RestrictedStep /\ restricted_hist = "cleared" /\ alert_obs'.cond) =>
            alert_obs'.attempted]_vars

(* What the handler of a re-triggered condition does: send_email is        *)
(* called; a delivery is attempted iff cooldown seconds have passed since  *)
(* last_sent, and then last_sent becomes the current time.                 *)
Retriggered(flag_after) ==
    /\ alert_obs'.called
    /\ alert_obs'.attempted = (now - last_sent >= cooldown)
    /\ alert_obs'.delivered => alert_obs'.attempted
    /\ last_sent' = IF alert_obs'.attempted THEN now ELSE last_sent
    /\ flag_after = alert_obs'.delivered

(* C15 as amended: on the frame where a condition that had cleared is true *)
(* again, send_email is called for it; the delivery is attempted only if   *)
(* at least cooldown seconds have passed since the last attempt for either *)
(* condition, and otherwise skipped; the flag of the condition is True     *)
(* afterwards iff the delivery succeeded.                                  *)
C15_NotifiesAgainOutsideCooldown ==
    [][/\ (CapacityStep /\ capacity_hist = "cleared" /\ alert_obs'.cond) =>
            Retriggered(alert_active')
       /\ (RestrictedStep /\ restricted_hist = "cleared" /\ alert_obs'.cond) =>
            Retriggered(restricted_alert_active')]_vars

(* The capacity condition cleared and came back at least cooldown seconds  *)
(* after construction, and its notification was delivered.                 *)
C15_Witness ==
    /\ alert_obs.op = "capacity"
    /\ alert_obs.before = "cleared"
    /\ alert_obs.cond
    /\ alert_obs.delivered
    /\ alert_active
    /\ last_sent = now
    /\ now >= StartTime + cooldown

(* C16: a call of handle_capacity in which the delivery was attempted and  *)
(* failed ends without an exception, send_email having returned False,     *)
(* returns True (the count is over capacity) and leaves alert_active       *)
(* False; every call returns whether the count is over capacity.           *)
C16_FailedDeliveryDoesNotInterrupt ==
    alert_obs.op = "capacity" =>
        /\ ~alert_obs.raised
        /\ alert_obs.ret = alert_obs.cond
        /\ (alert_obs.attempted /\ ~alert_obs.delivered) =>
              /\ alert_obs.cond
              /\ ~alert_active

(* A delivery of the capacity notification was attempted and failed.       *)
C16_Witness ==
    /\ alert_obs.op = "capacity"
    /\ alert_obs.attempted
    /\ ~alert_obs.delivered
    /\ alert_obs.ret
    /\ ~alert_active
    /\ last_sent = now

(* C21: after an update in Lane Counter mode every track of the active set *)
(* has lane "enter" iff its centroid x is strictly less than lane_split_x  *)
(* and lane "exit" otherwise, whatever lane it had before; none is left    *)
(* "unknown".                                                              *)
C21_LaneIsGeometric ==
    (lastOp = "update" /\ mode = LaneCounter) =>
        \A id \in DOMAIN tracked_objects :
            /\ tracked_objects[id].lane \in {"enter", "exit"}
            /\ tracked_objects[id].lane = "enter"
                  <=> tracked_objects[id].centroid[1] < lane_split_x

(* A track counted in, hence once in the enter lane, has crossed the split *)
(* and is in the exit lane.                                                *)
C21_Witness ==
    /\ lastOp = "update"
    /\ mode = LaneCounter
    /\ \E id \in DOMAIN tracked_objects :
          /\ tracked_objects[id].counted_in
          /\ tracked_objects[id].lane = "exit"
          /\ tracked_objects[id].centroid[1] >= lane_split_x

(* The number of tracks an update created. *)
CreatedBy(log) == Cardinality({i \in DOMAIN log : log[i].created})

(* C22: in every reachable state next_id is greater than every id of the   *)
(* active set and every active track has last_frame_id <= frame_id;        *)
(* next_id is the number of tracks created since construction or the last  *)
(* reset: it is 0 at construction and after reset_counts, an update adds   *)
(* the number of tracks it creates, each under an id of its own, and a     *)
(* mode change leaves it alone.                                            *)
C22_AllocatorAndFrameInvariant ==
    /\ [](/\ \A id \in DOMAIN tracked_objects :
              /\ id < next_id
              /\ tracked_objects[id].last_frame_id <= frame_id
          /\ next_id = Cardinality(issued)
          /\ lastOp \in {"init", "reset"} => next_id = 0)
    /\ [][/\ IsUpdateStep =>
              /\ next_id' = next_id + CreatedBy(assoc')
              /\ Cardinality(DOMAIN tracked_objects' \ DOMAIN tracked_objects)
                    <= CreatedBy(assoc')
              /\ \A i, j \in DOMAIN assoc' :
                    (i # j /\ assoc'[i].created /\ assoc'[j].created)
                       => assoc'[i].id # assoc'[j].id
          /\ lastOp' = "set_mode" => next_id' = next_id]_vars

(* After a reset, updates have created two tracks again, one of them not   *)
(* seen in the last frame.                                                 *)
C22_Witness ==
    /\ lastOp = "update"
    /\ issuedEver # issued
    /\ next_id = 2
    /\ Cardinality(DOMAIN tracked_objects) = 2
    /\ \E id \in DOMAIN tracked_objects :
          tracked_objects[id].last_frame_id < frame_id

(* The step is a call of one of the two handlers. *)
HandlerStep == CapacityStep \/ RestrictedStep

(* C23: a delivery attempted by either handler comes at least cooldown     *)
(* seconds after the delivery attempted before it, successful or not, and  *)
(* sets last_sent to its own time; a call of send_email made less than     *)
(* cooldown after last_sent attempts no delivery, returns False and leaves *)
(* last_sent and both flags as they were.                                  *)
C23_AttemptsCooldownApart ==
    [][HandlerStep =>
        /\ alert_obs'.attempted =>
              /\ last_attempt # None => now - last_attempt >= cooldown
              /\ last_sent' = now
              /\ last_sent' - last_sent >= cooldown
        /\ (alert_obs'.called /\ now - last_sent < cooldown) =>
              /\ ~alert_obs'.attempted
              /\ ~alert_obs'.delivered
              /\ last_sent' = last_sent
              /\ alert_active' = alert_active
              /\ restricted_alert_active' = restricted_alert_active]_vars

(* While the capacity notification stands delivered, a delivery of the     *)
(* restricted item notification was attempted exactly cooldown seconds     *)
(* after the attempt before it.                                            *)
C23_Witness ==
    /\ alert_obs.op = "restricted"
    /\ alert_obs.attempted
    /\ alert_active
    /\ alert_obs.prev_attempt # None
    /\ now - alert_obs.prev_attempt = cooldown
    /\ last_sent = now

====
